---- MODULE Spec2Model ----
(***************************************************************************)
(* Model of the umlaut_kb USB keyboard driver (src/umlaut_kb.c).           *)
(*                                                                         *)
(* One device session (struct umlaut_kb_data) is modelled together with    *)
(* the three contexts that call into the driver:                           *)
(*   - the bus context        : umlaut_kb_probe, umlaut_kb_disconnect      *)
(*   - the power context      : umlaut_kb_suspend, umlaut_kb_resume        *)
(*   - the input-core context : umlaut_kb_open, umlaut_kb_close            *)
(* and the host controller, which gives the interrupt URB back through     *)
(* umlaut_kb_ep_irq.                                                       *)
(***************************************************************************)
EXTENDS Integers, Sequences, FiniteSets, TLC

(* ---------------------------------------------------------------------- *)
(* Program constants                                                       *)
(* ---------------------------------------------------------------------- *)
SCAN_BASE == 30

keycodes == << "KEY_Q", "KEY_P", "KEY_Y", "KEY_S" >>

KEY_RIGHTALT == "KEY_RIGHTALT"

(* ---------------------------------------------------------------------- *)
(* Bounds of the model                                                     *)
(* ---------------------------------------------------------------------- *)
\* cap on the interface's power usage counter (usb_autopm_get_interface)
MaxPm == 2

\* values of bulk_in_buffer[2] (a u8) delivered by the device
Codes == {0, 5, SCAN_BASE - 1, SCAN_BASE, SCAN_BASE + 1, SCAN_BASE + 2,
          SCAN_BASE + 3, SCAN_BASE + 4, 255}

\* the reports the device sends while the lifecycle is explored
LifecycleCodes == {0, SCAN_BASE}

\* urb->status values handed to the completion callback
Statuses == {"0", "-EOVERFLOW", "-ECONNRESET", "-ENOENT", "-ESHUTDOWN", "-EPROTO"}

VARIABLES
    dev,          \* struct umlaut_kb_data: storage state and fields
    intfdata,     \* usb_get_intfdata(interface): "null" or "dev"
    sink,         \* the input device object: state, users, releases
    usb,          \* the URB object as the USB core sees it
    pm_usage,     \* autopm usage counter of the interface
    irq,          \* the completion callback: pc, urb->status, buffer[2], and
                  \* the reports the device may send
    events,       \* events reported to the sink: batch, keys, previous batch
    bus,          \* bus context: pc and probe's return value
    pm,           \* power context: pc, local dev, last results
    inp,          \* input-core context: pc and open's return value
    mut,          \* dev->mut holder
    slock,        \* dev->slock holder
    ghost         \* history: quiet after close, use after release, submissions

vars == << dev, intfdata, sink, usb, pm_usage, irq, events, bus, pm, inp,
           mut, slock, ghost >>

(* ---------------------------------------------------------------------- *)
(* Scan decoder (umlaut_kb_ep_irq, lines 153-167)                          *)
(* ---------------------------------------------------------------------- *)
Key(code, value) == [type |-> "key", code |-> code, value |-> value]

Sync == [type |-> "sync", code |-> "SYN_REPORT", value |-> 0]

ARRAY_SIZE(a) == Len(a)

\* Decode with the key reported before the modifier
Decode_key_first(b2) ==
    IF b2 >= SCAN_BASE /\ b2 < SCAN_BASE + ARRAY_SIZE(keycodes)
    THEN << Key(keycodes[(b2 - SCAN_BASE) + 1], 1), Key(KEY_RIGHTALT, 1), Sync >>
    ELSE IF b2 = 0
         THEN [i \in 1..ARRAY_SIZE(keycodes) |-> Key(keycodes[i], 0)]
              \o << Key(KEY_RIGHTALT, 0), Sync >>
         ELSE << >>

\* Decode with a release loop that stops one key short
Decode_short_loop(b2) ==
    IF b2 >= SCAN_BASE /\ b2 < SCAN_BASE + ARRAY_SIZE(keycodes)
    THEN << Key(KEY_RIGHTALT, 1), Key(keycodes[(b2 - SCAN_BASE) + 1], 1), Sync >>
    ELSE IF b2 = 0
         THEN [i \in 1..(ARRAY_SIZE(keycodes) - 1) |-> Key(keycodes[i], 0)]
              \o << Key(KEY_RIGHTALT, 0), Sync >>
         ELSE << >>

\* Decode with a release branch that does not test for 0
Decode_plain_else(b2) ==
    IF b2 >= SCAN_BASE /\ b2 < SCAN_BASE + ARRAY_SIZE(keycodes)
    THEN << Key(KEY_RIGHTALT, 1), Key(keycodes[(b2 - SCAN_BASE) + 1], 1), Sync >>
    ELSE [i \in 1..ARRAY_SIZE(keycodes) |-> Key(keycodes[i], 0)]
         \o << Key(KEY_RIGHTALT, 0), Sync >>

\* Decode with a release branch that leaves the modifier down
Decode_keeps_modifier(b2) ==
    IF b2 >= SCAN_BASE /\ b2 < SCAN_BASE + ARRAY_SIZE(keycodes)
    THEN << Key(KEY_RIGHTALT, 1), Key(keycodes[(b2 - SCAN_BASE) + 1], 1), Sync >>
    ELSE IF b2 = 0
         THEN [i \in 1..ARRAY_SIZE(keycodes) |-> Key(keycodes[i], 0)]
              \o << Sync >>
         ELSE << >>

\* the sequence of input_report_key / input_sync calls made for one report
Decode(b2) ==
    IF b2 >= SCAN_BASE /\ b2 < SCAN_BASE + ARRAY_SIZE(keycodes)
    THEN << Key(KEY_RIGHTALT, 1), Key(keycodes[(b2 - SCAN_BASE) + 1], 1), Sync >>
    ELSE IF b2 = 0
         THEN [i \in 1..ARRAY_SIZE(keycodes) |-> Key(keycodes[i], 0)]
              \o << Key(KEY_RIGHTALT, 0), Sync >>
         ELSE << >>

\* the key state the sink tracks, after one reported event
input_report_key(keys, e) ==
    IF e.type # "key" THEN keys
    ELSE IF e.value = 1 THEN keys \cup {e.code} ELSE keys \ {e.code}

RECURSIVE ReportAll(_, _)
ReportAll(keys, es) ==
    IF es = << >> THEN keys
    ELSE ReportAll(input_report_key(keys, Head(es)), Tail(es))

(* ---------------------------------------------------------------------- *)
(* Resources: the session, the sink object and the URB                     *)
(* ---------------------------------------------------------------------- *)
\* the part of the state the release paths work on
World == [dev |-> dev, sink |-> sink, usb |-> usb]

\* usb_free_urb(dev->bulk_in_urb): drops the driver's reference (NULL is a no-op)
usb_free_urb(w) ==
    IF w.dev.bulk_in_urb = "null" THEN w
    ELSE [w EXCEPT !.usb.urb = "freed", !.usb.frees = @ + 1]

usb_put_dev(w) == [w EXCEPT !.usb.udev_refs = @ - 1]

\* input_free_device(dev->input): frees a sink object that was never registered
input_free_device(w) ==
    IF w.dev.input = "null" THEN w
    ELSE [w EXCEPT !.sink.st = "freed", !.sink.releases = @ + 1]

\* input_unregister_device(dev->input), when no consumer has to be closed
input_unregister_device(w) ==
    [w EXCEPT !.sink.st = "unregistered", !.sink.releases = @ + 1]

kfree(w) == [w EXCEPT !.dev.mem = "freed", !.dev.kfrees = @ + 1]

umlaut_kb_delete(w) ==
    LET w1 == usb_put_dev(usb_free_urb(w))
        w2 == IF w.dev.input # "null" THEN input_unregister_device(w1) ELSE w1
    IN  kfree(w2)

\* kref_put(&dev->kref, umlaut_kb_delete)
kref_put(w) ==
    LET w1 == [w EXCEPT !.dev.kref = @ - 1]
    IN  IF w1.dev.kref = 0 THEN umlaut_kb_delete(w1) ELSE w1

kref_get(w) == [w EXCEPT !.dev.kref = @ + 1]

(* ---------------------------------------------------------------------- *)
(* The transfer channel (USB core contract of usb_submit_urb/usb_kill_urb) *)
(* ---------------------------------------------------------------------- *)
\* transfers of the session's URB that are queued or being given back
Outstanding == usb.outstanding

\* usb_submit_urb on a URB that is submitted twice without the -EBUSY refusal
SubmitResults_no_busy ==
    LET live == IF usb.reject > 0 THEN {"-EPERM"} ELSE {"0", "-ENOMEM"}
    IN  IF usb.urb = "live" THEN live ELSE live \cup {"-EFAULT"}

\* usb_submit_urb(dev->bulk_in_urb) called from a lifecycle call: the possible
\* return values.  A URB the driver has already freed is undefined behaviour:
\* it may still work as if live, or fault.
SubmitResults ==
    LET live == IF usb.reject > 0 THEN {"-EPERM"}
                ELSE IF usb.outstanding > 0 THEN {"-EBUSY"}
                ELSE {"0", "-ENOMEM"}
    IN  IF usb.urb = "live" THEN live ELSE live \cup {"-EFAULT"}

\* the URB after usb_submit_urb returned r
Submitted(u, r) == IF r = "0" THEN [u EXCEPT !.outstanding = @ + 1] ELSE u

\* usb_kill_urb, first half: reject resubmission and unlink a queued transfer
KillBegin(u) == [u EXCEPT !.reject = @ + 1,
                          !.unlinked = (@ \/ u.outstanding > 0)]

\* usb_kill_urb, second half: it returns once no transfer is queued and the
\* completion callback is not running
KillDone == usb.outstanding = 0 /\ irq.pc = "none"

KillEnd(u) == [u EXCEPT !.reject = @ - 1]

(* ---------------------------------------------------------------------- *)
(* Initial state: before umlaut_kb_probe                                   *)
(* ---------------------------------------------------------------------- *)
Init ==
    /\ dev = [mem |-> "none", kref |-> 0, input |-> "null",
              bulk_in_urb |-> "null", udev |-> "null", kfrees |-> 0]
    /\ intfdata = "null"
    /\ sink = [st |-> "none", users |-> 0, releases |-> 0]
    /\ usb = [urb |-> "none", frees |-> 0, outstanding |-> 0, reject |-> 0,
              unlinked |-> FALSE, udev_refs |-> 0]
    /\ pm_usage = 0
    /\ irq = [pc |-> "none", status |-> "none", b2 |-> 0, codes |-> LifecycleCodes]
    /\ events = [batch |-> << >>, code |-> -1, prev_batch |-> << >>,
                 prev_code |-> -1, keys |-> {}]
    /\ bus = [pc |-> "init", fail |-> "none", ret |-> "none"]
    /\ pm = [pc |-> "idle", last |-> "none", ret |-> "none", killed |-> FALSE,
             after_suspend |-> FALSE]
    /\ inp = [pc |-> "idle", ret |-> "none"]
    /\ mut = "free"
    /\ slock = "free"
    /\ ghost = [quiet |-> FALSE, uar |-> FALSE, submitted |-> FALSE]

(* ---------------------------------------------------------------------- *)
(* umlaut_kb_probe (lines 177-261)                                         *)
(* ---------------------------------------------------------------------- *)
\* the error label without line 255, dev->input = NULL
ProbeError_keep_input(w) == kref_put(input_free_device(w))

\* the error label of probe (lines 252-260)
ProbeError(w) ==
    LET w1 == input_free_device(w)
        w2 == [w1 EXCEPT !.dev.input = "null"]
    IN  kref_put(w2)

\* probe that also submits the first transfer when it succeeds
umlaut_kb_probe_submits(fail) ==
    /\ bus.pc = "init"
    /\ LET w0 == [World EXCEPT !.dev.mem = "live", !.dev.kref = 1,
                               !.dev.udev = "ptr", !.usb.udev_refs = @ + 1]
           w1 == [w0 EXCEPT !.dev.bulk_in_urb = "ptr", !.usb.urb = "live"]
           w2 == [w1 EXCEPT !.dev.input = "ptr", !.sink.st = "allocated"]
           w3 == [w2 EXCEPT !.sink.st = "registered", !.usb.outstanding = 1]
           wf == CASE fail = "kzalloc"  -> World
                   [] fail = "urb"      -> ProbeError(w0)
                   [] fail = "input"    -> ProbeError(w1)
                   [] fail = "register" -> ProbeError(w2)
                   [] OTHER             -> w3
       IN  /\ dev' = wf.dev
           /\ sink' = wf.sink
           /\ usb' = wf.usb
           /\ intfdata' = IF fail \in {"register", "none"} THEN "dev" ELSE intfdata
           /\ bus' = [pc  |-> IF fail = "none" THEN "bound" ELSE "failed",
                      fail |-> fail,
                      ret |-> CASE fail = "none"     -> "0"
                                [] fail = "register" -> "-EINVAL"
                                [] OTHER             -> "-ENOMEM"]
    /\ UNCHANGED << pm_usage, irq, events, pm, inp, mut, slock, ghost >>

\* fail names the first allocation or registration that fails ("none": success)
umlaut_kb_probe(fail) ==
    /\ bus.pc = "init"
    /\ LET w0 == [World EXCEPT !.dev.mem = "live", !.dev.kref = 1,
                               !.dev.udev = "ptr", !.usb.udev_refs = @ + 1]
           w1 == [w0 EXCEPT !.dev.bulk_in_urb = "ptr", !.usb.urb = "live"]
           w2 == [w1 EXCEPT !.dev.input = "ptr", !.sink.st = "allocated"]
           w3 == [w2 EXCEPT !.sink.st = "registered"]
           wf == CASE fail = "kzalloc"  -> World
                   [] fail = "urb"      -> ProbeError(w0)
                   [] fail = "input"    -> ProbeError(w1)
                   [] fail = "register" -> ProbeError(w2)
                   [] OTHER             -> w3
       IN  /\ dev' = wf.dev
           /\ sink' = wf.sink
           /\ usb' = wf.usb
           /\ intfdata' = IF fail \in {"register", "none"} THEN "dev" ELSE intfdata
           /\ bus' = [pc  |-> IF fail = "none" THEN "bound" ELSE "failed",
                      fail |-> fail,
                      ret |-> CASE fail = "none"     -> "0"
                                [] fail = "register" -> "-EINVAL"
                                [] OTHER             -> "-ENOMEM"]
    /\ UNCHANGED << pm_usage, irq, events, pm, inp, mut, slock, ghost >>

Probe == \E fail \in {"none", "kzalloc", "urb", "input", "register"} :
             umlaut_kb_probe(fail)

(* ---------------------------------------------------------------------- *)
(* umlaut_kb_open (lines 78-108), called by the input core for the first   *)
(* consumer: the core counts the consumer (users) before it calls open and *)
(* uncounts it when open fails.  input_get_drvdata is never NULL here:     *)
(* probe sets it before it registers the device.                           *)
(* ---------------------------------------------------------------------- *)
\* an unregistration of the sink has started: no new consumer is admitted
GoingAway == bus.pc = "disc_unreg"

\* lines 83-94: usb_autopm_get_interface returns r
umlaut_kb_open_get(r) ==
    /\ inp.pc = "idle"
    /\ sink.st = "registered" /\ sink.users = 0 /\ ~GoingAway
    /\ pm_usage < MaxPm
    /\ IF r = "0"
       THEN /\ pm_usage' = pm_usage + 1
            /\ sink' = [sink EXCEPT !.users = 1]
            /\ inp' = [inp EXCEPT !.pc = "open_submit"]
       ELSE /\ inp' = [pc |-> "idle", ret |-> r]
            /\ UNCHANGED << pm_usage, sink >>
    /\ UNCHANGED << dev, intfdata, usb, irq, events, bus, pm, mut, slock, ghost >>

\* lines 96-107: usb_submit_urb returns r
umlaut_kb_open_submit(r) ==
    /\ inp.pc = "open_submit"
    /\ IF r = "0"
       THEN /\ usb' = Submitted(usb, r)
            /\ dev' = kref_get(World).dev
            /\ sink' = sink
            /\ ghost' = [ghost EXCEPT !.quiet = FALSE, !.submitted = TRUE]
       ELSE /\ sink' = [sink EXCEPT !.users = 0]
            /\ UNCHANGED << usb, dev, ghost >>
    /\ inp' = [pc |-> "idle", ret |-> r]
    /\ UNCHANGED << intfdata, pm_usage, irq, events, bus, pm, mut, slock >>

OpenGet == \E r \in {"0", "-EACCES"} : umlaut_kb_open_get(r)

OpenSubmit == \E r \in SubmitResults : umlaut_kb_open_submit(r)

(* ---------------------------------------------------------------------- *)
(* umlaut_kb_close (lines 110-124), called by the input core when the last *)
(* consumer leaves, or has to leave because the sink is unregistered       *)
(* ---------------------------------------------------------------------- *)
\* lines 114-118: usb_kill_urb starts
umlaut_kb_close_kill ==
    /\ inp.pc = "idle"
    /\ sink.st = "registered" /\ sink.users > 0
    /\ sink' = [sink EXCEPT !.users = 0]
    /\ usb' = KillBegin(usb)
    /\ inp' = [inp EXCEPT !.pc = "close_kill"]
    /\ UNCHANGED << dev, intfdata, pm_usage, irq, events, bus, pm, mut, slock,
                    ghost >>

\* close with a cancellation that does not wait (usb_unlink_urb)
umlaut_kb_close_put_nowait ==
    /\ inp.pc = "close_kill"
    /\ LET w == kref_put([World EXCEPT !.usb = KillEnd(usb)])
       IN  /\ dev' = w.dev
           /\ sink' = w.sink
           /\ usb' = w.usb
    /\ pm_usage' = pm_usage - 1
    /\ inp' = [pc |-> "idle", ret |-> "closed"]
    /\ ghost' = [ghost EXCEPT !.quiet = TRUE]
    /\ UNCHANGED << intfdata, irq, events, bus, pm, mut, slock >>

\* lines 118-124: usb_kill_urb returns, then the two puts
umlaut_kb_close_put ==
    /\ inp.pc = "close_kill"
    /\ KillDone
    /\ LET w == kref_put([World EXCEPT !.usb = KillEnd(usb)])
       IN  /\ dev' = w.dev
           /\ sink' = w.sink
           /\ usb' = w.usb
    /\ pm_usage' = pm_usage - 1
    /\ inp' = [pc |-> "idle", ret |-> "closed"]
    /\ ghost' = [ghost EXCEPT !.quiet = TRUE]
    /\ UNCHANGED << intfdata, irq, events, bus, pm, mut, slock >>

(* ---------------------------------------------------------------------- *)
(* umlaut_kb_suspend (lines 282-293) and umlaut_kb_resume (lines 295-307)  *)
(* Neither takes dev->mut.                                                 *)
(* ---------------------------------------------------------------------- *)
\* the interface is, or has been, bound to the driver
Bound == bus.pc \notin {"init", "failed"}

\* the power call op returns r, having cancelled the transfer or not;
\* after_suspend tells whether the call before it was a suspend that cancelled
\* the transfer and returned 0
PmReturn(op, r, k) ==
    [pc |-> "idle", last |-> op, ret |-> r, killed |-> k,
     after_suspend |-> (pm.last = "suspend" /\ pm.ret = "0" /\ pm.killed)]

\* dev->input->users as a power call reads it; once the sink is unregistered
\* the read is of a released object and can give any value
UsersRead == IF sink.st = "registered" THEN {sink.users} ELSE {0, 1}

\* the sink has been unregistered, or the URB freed, by umlaut_kb_disconnect
SinkReleased == sink.st # "registered"

UrbReleased == usb.urb # "live"

\* lines 284-287
umlaut_kb_suspend_get ==
    /\ pm.pc = "idle" /\ Bound
    /\ pm' = IF intfdata = "null" THEN PmReturn("suspend", "-ENODEV", FALSE)
             ELSE [pm EXCEPT !.pc = "susp_users"]
    /\ UNCHANGED << dev, intfdata, sink, usb, pm_usage, irq, events, bus, inp,
                    mut, slock, ghost >>

\* suspend without the test of line 289: it always cancels
umlaut_kb_suspend_users_always(u) ==
    /\ pm.pc = "susp_users"
    /\ pm' = [pm EXCEPT !.pc = "susp_kill"]
    /\ ghost' = [ghost EXCEPT !.uar = (@ \/ SinkReleased)]
    /\ UNCHANGED << dev, intfdata, sink, usb, pm_usage, irq, events, bus, inp,
                    mut, slock >>

\* line 289, users read as u
umlaut_kb_suspend_users(u) ==
    /\ pm.pc = "susp_users"
    /\ pm' = IF u > 0 THEN [pm EXCEPT !.pc = "susp_kill"]
             ELSE PmReturn("suspend", "0", FALSE)
    /\ ghost' = [ghost EXCEPT !.uar = (@ \/ SinkReleased)]
    /\ UNCHANGED << dev, intfdata, sink, usb, pm_usage, irq, events, bus, inp,
                    mut, slock >>

\* line 290: usb_kill_urb starts
umlaut_kb_suspend_kill ==
    /\ pm.pc = "susp_kill"
    /\ usb' = KillBegin(usb)
    /\ pm' = [pm EXCEPT !.pc = "susp_wait"]
    /\ ghost' = [ghost EXCEPT !.uar = (@ \/ UrbReleased)]
    /\ UNCHANGED << dev, intfdata, sink, pm_usage, irq, events, bus, inp, mut,
                    slock >>

\* lines 290-292: usb_kill_urb returns
umlaut_kb_suspend_done ==
    /\ pm.pc = "susp_wait"
    /\ KillDone
    /\ usb' = KillEnd(usb)
    /\ pm' = PmReturn("suspend", "0", TRUE)
    /\ UNCHANGED << dev, intfdata, sink, pm_usage, irq, events, bus, inp, mut,
                    slock, ghost >>

SuspendUsers == \E u \in UsersRead : umlaut_kb_suspend_users(u)

\* lines 297-301
umlaut_kb_resume_get ==
    /\ pm.pc = "idle" /\ Bound
    /\ pm' = IF intfdata = "null" THEN PmReturn("resume", "-ENODEV", FALSE)
             ELSE [pm EXCEPT !.pc = "res_users"]
    /\ UNCHANGED << dev, intfdata, sink, usb, pm_usage, irq, events, bus, inp,
                    mut, slock, ghost >>

\* resume with the test of line 303 inverted
umlaut_kb_resume_users_inverted(u) ==
    /\ pm.pc = "res_users"
    /\ pm' = IF u = 0 THEN [pm EXCEPT !.pc = "res_submit"]
             ELSE PmReturn("resume", "0", FALSE)
    /\ ghost' = [ghost EXCEPT !.uar = (@ \/ SinkReleased)]
    /\ UNCHANGED << dev, intfdata, sink, usb, pm_usage, irq, events, bus, inp,
                    mut, slock >>

\* line 303, users read as u
umlaut_kb_resume_users(u) ==
    /\ pm.pc = "res_users"
    /\ pm' = IF u > 0 THEN [pm EXCEPT !.pc = "res_submit"]
             ELSE PmReturn("resume", "0", FALSE)
    /\ ghost' = [ghost EXCEPT !.uar = (@ \/ SinkReleased)]
    /\ UNCHANGED << dev, intfdata, sink, usb, pm_usage, irq, events, bus, inp,
                    mut, slock >>

\* lines 304-306: usb_submit_urb returns r
umlaut_kb_resume_submit(r) ==
    /\ pm.pc = "res_submit"
    /\ usb' = Submitted(usb, r)
    /\ pm' = PmReturn("resume", r, FALSE)
    /\ ghost' = [ghost EXCEPT !.uar = (@ \/ UrbReleased),
                              !.quiet = (@ /\ r # "0"),
                              !.submitted = (@ \/ r = "0")]
    /\ UNCHANGED << dev, intfdata, sink, pm_usage, irq, events, bus, inp, mut,
                    slock >>

ResumeUsers == \E u \in UsersRead : umlaut_kb_resume_users(u)

ResumeSubmit == \E r \in SubmitResults : umlaut_kb_resume_submit(r)

(* ---------------------------------------------------------------------- *)
(* umlaut_kb_disconnect (lines 263-280)                                    *)
(* ---------------------------------------------------------------------- *)
\* lines 267-269
umlaut_kb_disconnect_lock ==
    /\ bus.pc = "bound"
    /\ mut = "free"
    /\ mut' = "disconnect"
    /\ bus' = [bus EXCEPT !.pc = "disc_set"]
    /\ UNCHANGED << dev, intfdata, sink, usb, pm_usage, irq, events, pm, inp,
                    slock, ghost >>

\* line 271
umlaut_kb_disconnect_set ==
    /\ bus.pc = "disc_set"
    /\ intfdata' = "null"
    /\ bus' = [bus EXCEPT !.pc = "disc_unreg"]
    /\ UNCHANGED << dev, sink, usb, pm_usage, irq, events, pm, inp, mut, slock,
                    ghost >>

\* line 273: input_unregister_device returns once the input core has no
\* open or close call in progress and has closed the open consumer
umlaut_kb_disconnect_unregister ==
    /\ bus.pc = "disc_unreg"
    /\ inp.pc = "idle" /\ sink.users = 0
    /\ sink' = input_unregister_device(World).sink
    /\ bus' = [bus EXCEPT !.pc = "disc_free"]
    /\ UNCHANGED << dev, intfdata, usb, pm_usage, irq, events, pm, inp, mut,
                    slock, ghost >>

\* line 275
umlaut_kb_disconnect_free ==
    /\ bus.pc = "disc_free"
    /\ usb' = usb_free_urb(World).usb
    /\ bus' = [bus EXCEPT !.pc = "disc_unlock"]
    /\ UNCHANGED << dev, intfdata, sink, pm_usage, irq, events, pm, inp, mut,
                    slock, ghost >>

\* lines 277-280
umlaut_kb_disconnect_unlock ==
    /\ bus.pc = "disc_unlock"
    /\ mut' = "free"
    /\ bus' = [bus EXCEPT !.pc = "gone"]
    /\ UNCHANGED << dev, intfdata, sink, usb, pm_usage, irq, events, pm, inp,
                    slock, ghost >>

(* ---------------------------------------------------------------------- *)
(* umlaut_kb_ep_irq (lines 126-175)                                        *)
(* ---------------------------------------------------------------------- *)
Benign == {"-EOVERFLOW", "-ECONNRESET", "-ENOENT", "-ESHUTDOWN"}

\* the host controller gives the URB back: a killed transfer with -ENOENT,
\* any other with a status of its own and, on success, a fresh report
Complete(st, b) ==
    /\ usb.outstanding > 0
    /\ irq.pc = "none"
    /\ st \in (IF usb.unlinked THEN {"-ENOENT"} ELSE Statuses \ {"-ENOENT"})
    /\ usb' = [usb EXCEPT !.outstanding = @ - 1, !.unlinked = FALSE]
    /\ irq' = [irq EXCEPT !.pc = "entry", !.status = st,
                           !.b2 = IF st = "0" THEN b ELSE @]
    /\ UNCHANGED << dev, intfdata, sink, pm_usage, events, bus, pm, inp, mut,
                    slock, ghost >>

Giveback == \E st \in Statuses, b \in irq.codes : Complete(st, b)

\* lines 133-137: status 0
umlaut_kb_ep_irq_ok ==
    /\ irq.pc = "entry" /\ slock = "free"
    /\ irq.status = "0"
    /\ slock' = "irq"
    /\ irq' = [irq EXCEPT !.pc = "decode"]
    /\ UNCHANGED << dev, intfdata, sink, usb, pm_usage, events, bus, pm, inp,
                    mut, ghost >>

\* the ignored statuses returning without line 145, spin_unlock_irqrestore
umlaut_kb_ep_irq_ignored_keeps_lock ==
    /\ irq.pc = "entry" /\ slock = "free"
    /\ irq.status \in Benign
    /\ slock' = "irq"
    /\ irq' = [irq EXCEPT !.pc = "none", !.status = "none"]
    /\ UNCHANGED << dev, intfdata, sink, usb, pm_usage, events, bus, pm, inp,
                    mut, ghost >>

\* lines 133-147: the four ignored statuses return without resubmitting
umlaut_kb_ep_irq_ignored ==
    /\ irq.pc = "entry" /\ slock = "free"
    /\ irq.status \in Benign
    /\ irq' = [irq EXCEPT !.pc = "none", !.status = "none"]
    /\ UNCHANGED << dev, intfdata, sink, usb, pm_usage, events, bus, pm, inp,
                    mut, slock, ghost >>

\* any other status returning like the ignored ones, without resubmitting
umlaut_kb_ep_irq_default_returns ==
    /\ irq.pc = "entry" /\ slock = "free"
    /\ irq.status \notin Benign \cup {"0"}
    /\ irq' = [irq EXCEPT !.pc = "none", !.status = "none"]
    /\ UNCHANGED << dev, intfdata, sink, usb, pm_usage, events, bus, pm, inp,
                    mut, slock, ghost >>

\* lines 133-150: any other status goes to exit
umlaut_kb_ep_irq_default ==
    /\ irq.pc = "entry" /\ slock = "free"
    /\ irq.status \notin Benign \cup {"0"}
    /\ slock' = "irq"
    /\ irq' = [irq EXCEPT !.pc = "exit"]
    /\ UNCHANGED << dev, intfdata, sink, usb, pm_usage, events, bus, pm, inp,
                    mut, ghost >>

\* decoding that reports modifier-down only when the modifier is not down
umlaut_kb_ep_irq_decode_tracked ==
    /\ irq.pc = "decode"
    /\ LET d == Decode(irq.b2)
           batch == IF d # << >> /\ Head(d) = Key(KEY_RIGHTALT, 1)
                       /\ KEY_RIGHTALT \in events.keys
                    THEN Tail(d) ELSE d
       IN  events' = [batch |-> batch, code |-> irq.b2,
                      prev_batch |-> events.batch, prev_code |-> events.code,
                      keys |-> ReportAll(events.keys, batch)]
    /\ irq' = [irq EXCEPT !.pc = "exit"]
    /\ UNCHANGED << dev, intfdata, sink, usb, pm_usage, bus, pm, inp, mut, slock,
                    ghost >>

\* lines 153-167
umlaut_kb_ep_irq_decode ==
    /\ irq.pc = "decode"
    /\ LET batch == Decode(irq.b2)
       IN  events' = [batch |-> batch, code |-> irq.b2,
                      prev_batch |-> events.batch, prev_code |-> events.code,
                      keys |-> ReportAll(events.keys, batch)]
    /\ irq' = [irq EXCEPT !.pc = "exit"]
    /\ UNCHANGED << dev, intfdata, sink, usb, pm_usage, bus, pm, inp, mut, slock,
                    ghost >>

\* usb_submit_urb called from the callback: the URB is held by the host
\* controller while its callback runs
SubmitLive == IF usb.reject > 0 THEN {"-EPERM"}
              ELSE IF usb.outstanding > 0 THEN {"-EBUSY"}
              ELSE {"0", "-ENOMEM"}

\* lines 169-175: usb_submit_urb returns r; an error is only logged
umlaut_kb_ep_irq_exit(r) ==
    /\ irq.pc = "exit"
    /\ usb' = Submitted(usb, r)
    /\ slock' = "free"
    /\ irq' = [irq EXCEPT !.pc = "none", !.status = "none"]
    /\ ghost' = [ghost EXCEPT !.submitted = (@ \/ r = "0")]
    /\ UNCHANGED << dev, intfdata, sink, pm_usage, events, bus, pm, inp, mut >>

IrqExit == \E r \in SubmitLive : umlaut_kb_ep_irq_exit(r)

(* ---------------------------------------------------------------------- *)
(* Specification                                                           *)
(* ---------------------------------------------------------------------- *)
Next ==
    \/ Probe
    \/ OpenGet
    \/ OpenSubmit
    \/ umlaut_kb_close_kill
    \/ umlaut_kb_close_put
    \/ umlaut_kb_suspend_get
    \/ SuspendUsers
    \/ umlaut_kb_suspend_kill
    \/ umlaut_kb_suspend_done
    \/ umlaut_kb_resume_get
    \/ ResumeUsers
    \/ ResumeSubmit
    \/ umlaut_kb_disconnect_lock
    \/ umlaut_kb_disconnect_set
    \/ umlaut_kb_disconnect_unregister
    \/ umlaut_kb_disconnect_free
    \/ umlaut_kb_disconnect_unlock
    \/ Giveback
    \/ umlaut_kb_ep_irq_ok
    \/ umlaut_kb_ep_irq_ignored
    \/ umlaut_kb_ep_irq_default
    \/ umlaut_kb_ep_irq_decode
    \/ IrqExit

Spec == Init /\ [][Next]_vars

TypeOK ==
    /\ dev.kref \in 0..2
    /\ usb.outstanding \in 0..1
    /\ usb.reject \in 0..2
    /\ pm_usage \in 0..MaxPm
    /\ sink.users \in 0..1

(* ---------------------------------------------------------------------- *)
(* The receive loop on its own: the session is attached and opened, the    *)
(* first transfer is queued, and the device sends any report of Codes      *)
(* ---------------------------------------------------------------------- *)
InitDecode ==
    /\ dev = [mem |-> "live", kref |-> 2, input |-> "ptr",
              bulk_in_urb |-> "ptr", udev |-> "ptr", kfrees |-> 0]
    /\ intfdata = "dev"
    /\ sink = [st |-> "registered", users |-> 1, releases |-> 0]
    /\ usb = [urb |-> "live", frees |-> 0, outstanding |-> 1, reject |-> 0,
              unlinked |-> FALSE, udev_refs |-> 1]
    /\ pm_usage = 1
    /\ irq = [pc |-> "none", status |-> "none", b2 |-> 0, codes |-> Codes]
    /\ events = [batch |-> << >>, code |-> -1, prev_batch |-> << >>,
                 prev_code |-> -1, keys |-> {}]
    /\ bus = [pc |-> "bound", fail |-> "none", ret |-> "0"]
    /\ pm = [pc |-> "idle", last |-> "none", ret |-> "none", killed |-> FALSE,
             after_suspend |-> FALSE]
    /\ inp = [pc |-> "idle", ret |-> "0"]
    /\ mut = "free"
    /\ slock = "free"
    /\ ghost = [quiet |-> FALSE, uar |-> FALSE, submitted |-> TRUE]

NextDecode ==
    \/ Giveback
    \/ umlaut_kb_ep_irq_ok
    \/ umlaut_kb_ep_irq_ignored
    \/ umlaut_kb_ep_irq_default
    \/ umlaut_kb_ep_irq_decode
    \/ IrqExit

SpecDecode == InitDecode /\ [][NextDecode]_vars

\* the state SpecDecode starts from is a state of Spec, reports apart
DecodeStartReached ==
    /\ dev.kref = 2 /\ sink.users = 1 /\ usb.outstanding = 1 /\ pm_usage = 1
    /\ bus.pc = "bound" /\ inp = [pc |-> "idle", ret |-> "0"]
    /\ pm.pc = "idle" /\ pm.last = "none" /\ irq.pc = "none" /\ events.code = -1

(* ====================================================================== *)
(* Properties                                                              *)
(* ====================================================================== *)
\* the callback has just decoded the report irq.b2 of a successful completion
Decoded == irq.pc = "exit" /\ irq.status = "0"

Recognized == SCAN_BASE .. (SCAN_BASE + 3)

\* the key each recognized scan code stands for (a, o, u umlaut and eszett)
MappedKey(c) ==
    CASE c = SCAN_BASE     -> "KEY_Q"
      [] c = SCAN_BASE + 1 -> "KEY_P"
      [] c = SCAN_BASE + 2 -> "KEY_Y"
      [] c = SCAN_BASE + 3 -> "KEY_S"

Down(k) == [type |-> "key", code |-> k, value |-> 1]

Up(k) == [type |-> "key", code |-> k, value |-> 0]

AllUp == << Up("KEY_Q"), Up("KEY_P"), Up("KEY_Y"), Up("KEY_S"),
            Up("KEY_RIGHTALT"), Sync >>

\* C5: a successful completion with a recognized scan code c reports exactly
\* modifier-down, then the down event of the key mapped to c - SCAN_BASE, then
\* one sync, and nothing else.
C5_RecognizedCode ==
    (Decoded /\ irq.b2 \in Recognized) =>
        /\ events.code = irq.b2
        /\ events.batch = << Down("KEY_RIGHTALT"), Down(MappedKey(irq.b2)), Sync >>

C5_Witness ==
    /\ Decoded /\ irq.b2 = SCAN_BASE + 3
    /\ Len(events.batch) = 3 /\ events.batch[2] = Down("KEY_S")
    /\ events.keys = {"KEY_RIGHTALT", "KEY_Q", "KEY_S"}

\* C6: a successful completion with report byte 0 reports key-up for the four
\* ordinary keys and the modifier, then one sync, whatever keys were down
\* before, and leaves every key up; decoding 0 twice in a row reports the same
\* batch both times.
C6_ReleaseAll ==
    (Decoded /\ irq.b2 = 0) =>
        /\ events.code = 0
        /\ events.batch = AllUp
        /\ events.keys = {}
        /\ (events.prev_code = 0 => events.prev_batch = events.batch)

C6_Witness ==
    /\ Decoded /\ irq.b2 = 0
    /\ events.prev_code = 0 /\ events.prev_batch = AllUp /\ events.batch = AllUp

\* C7: a successful completion whose report byte is neither 0 nor a recognized
\* scan code reports no key event and no sync, and leaves the key state of the
\* sink unchanged.
C7_OtherCode ==
    [][(irq.pc = "decode" /\ irq'.pc = "exit" /\ irq.b2 # 0
        /\ irq.b2 \notin Recognized)
       => (events'.batch = << >> /\ events'.keys = events.keys)]_vars

C7_Witness ==
    /\ Decoded /\ irq.b2 = SCAN_BASE + 4
    /\ events.batch = << >> /\ events.code = SCAN_BASE + 4
    /\ events.keys = {"KEY_RIGHTALT", "KEY_Y"}

\* umlaut_kb_open has just returned r
OpenReturns(r) == inp.pc = "open_submit" /\ inp'.pc = "idle" /\ inp'.ret = r

\* C1: when open returns success exactly one transfer is outstanding; once
\* close has returned, no transfer is outstanding and the callback does not
\* run, until open or resume submits again.
C1_OpenClose ==
    [][/\ OpenReturns("0") => Outstanding' = 1
       /\ ghost'.quiet => (Outstanding' = 0 /\ irq'.pc = "none")]_vars

C1_Witness ==
    /\ ghost.quiet /\ inp.pc = "idle" /\ inp.ret = "closed"
    /\ events.code = SCAN_BASE
    /\ Outstanding = 0 /\ irq.pc = "none" /\ bus.pc = "bound"

\* a consumer has opened the session and has not started to close it
OpenConsumer == sink.users > 0 /\ inp.pc = "idle"

\* umlaut_kb_resume has just returned r
ResumeReturns(r) ==
    pm.pc # "idle" /\ pm'.pc = "idle" /\ pm'.last = "resume" /\ pm'.ret = r

\* C2: on a session with an open consumer, when a suspend that cancelled the
\* transfer is followed by a resume and both return 0, exactly one transfer
\* is outstanding when resume returns.
C2_SuspendResume ==
    [][(ResumeReturns("0") /\ pm'.after_suspend /\ OpenConsumer')
       => Outstanding' = 1]_vars

C2_Witness ==
    /\ pm.pc = "idle" /\ pm.last = "resume" /\ pm.ret = "0" /\ pm.after_suspend
    /\ OpenConsumer /\ Outstanding = 1 /\ irq.pc = "none"

\* C3: detach is serialized against the other lifecycle calls: none of them
\* reads the sink or cancels or submits on the channel handle after detach has
\* unregistered the sink or freed the handle.
C3_DetachSerialized == ~ghost.uar

\* C4: after detach has returned, the completion callback does not run for
\* this session and no transfer is left that would invoke it.
C4_NoCallbackAfterDetach ==
    bus.pc = "gone" => (irq.pc = "none" /\ Outstanding = 0)

\* C8: when open has the power-active guarantee and the first submission
\* fails, open returns the error with the guarantee released, refcount not
\* incremented and no transfer outstanding.
C8_OpenSubmitFails ==
    [][(inp.pc = "open_submit" /\ inp'.pc = "idle" /\ inp'.ret # "0")
       => /\ pm_usage' = pm_usage - 1
          /\ dev'.kref = dev.kref
          /\ Outstanding' = 0]_vars

\* C9: when sink registration fails, probe returns the registration error,
\* the session is never active, no transfer is submitted, and the session
\* storage, the URB, the sink object and the device reference are each
\* released exactly once.
C9_RegistrationFails ==
    (bus.pc = "failed" /\ bus.fail = "register") =>
        /\ bus.ret = "-EINVAL"
        /\ dev.mem = "freed" /\ dev.kfrees = 1 /\ dev.kref = 0
        /\ usb.urb = "freed" /\ usb.frees = 1
        /\ sink.st = "freed" /\ sink.releases = 1 /\ sink.users = 0
        /\ usb.udev_refs = 0
        /\ ~ghost.submitted /\ Outstanding = 0 /\ irq.pc = "none"

C9_Witness ==
    /\ bus.pc = "failed" /\ bus.fail = "register"
    /\ dev.mem = "freed" /\ usb.frees = 1 /\ sink.releases = 1

\* the holders of the session: the framework's attachment, from attach until
\* detach has returned, and the consumer that opened it, until close puts it
Holders ==
    (IF bus.pc \in {"bound", "disc_set", "disc_unreg", "disc_free", "disc_unlock"}
     THEN 1 ELSE 0)
    + (IF OpenConsumer \/ inp.pc = "close_kill" THEN 1 ELSE 0)

\* C10: refcount equals the number of holders of the session, and session
\* storage is released only when that count is zero.
C10_RefcountIsHolders ==
    /\ dev.mem = "live" => dev.kref = Holders
    /\ dev.mem = "freed" => (dev.kref = 0 /\ Holders = 0)


\* a power call takes the step that reads dev->input->users
PmUsersStep == pm.pc \in {"susp_users", "res_users"} /\ pm'.pc # pm.pc

\* what a power call must leave alone to be a no-op
SessionState == << dev, intfdata, sink, usb, pm_usage, irq, events, mut, slock >>

\* C11: with no open consumer, suspend and resume cancel nothing, submit
\* nothing, leave refcount and the session state unchanged and return 0.
C11_NoConsumerNoOp ==
    [][(PmUsersStep /\ sink.st = "registered" /\ sink.users = 0)
       => /\ pm'.pc = "idle" /\ pm'.ret = "0" /\ ~pm'.killed
          /\ UNCHANGED SessionState]_vars

C11_Witness ==
    /\ pm.pc = "idle" /\ pm.last = "suspend" /\ pm.ret = "0" /\ ~pm.killed
    /\ bus.pc = "bound" /\ sink.st = "registered" /\ sink.users = 0
    /\ inp.pc = "idle" /\ inp.ret = "closed"
    /\ dev.kref = 1 /\ Outstanding = 0 /\ usb.reject = 0


\* umlaut_kb_open has not been called on the session
NeverOpened == inp.pc = "idle" /\ inp.ret = "none"

\* C12: a successful probe leaves refcount 1 and no transfer outstanding;
\* probe submits nothing, and while the attached session has not been opened
\* nothing is submitted, nothing is outstanding and the callback does not run.
C12_AttachSubmitsNothing ==
    (bus.ret = "0" /\ sink.st = "registered" /\ NeverOpened) =>
        /\ dev.kref = 1 /\ dev.mem = "live"
        /\ Outstanding = 0 /\ irq.pc = "none" /\ ~ghost.submitted
        /\ sink.users = 0 /\ pm_usage = 0

C12_Witness ==
    /\ bus.pc = "bound" /\ bus.ret = "0" /\ sink.st = "registered" /\ NeverOpened
    /\ pm.pc = "idle" /\ pm.last = "resume" /\ pm.ret = "0"
    /\ dev.kref = 1 /\ Outstanding = 0

DecodeStep == irq.pc = "decode" /\ irq'.pc = "exit"

ModifierDown(keys) == "KEY_RIGHTALT" \in keys

\* the modifier-down events of a batch
ModifierDowns(batch) ==
    {i \in 1..Len(batch) : batch[i] = Down("KEY_RIGHTALT")}

\* C13 as claimed: a recognized scan code decoded while the modifier is
\* already reported down reports no second modifier-down event.
C13_NoSecondModifierDown ==
    [][(DecodeStep /\ irq.b2 \in Recognized /\ ModifierDown(events.keys))
       => ModifierDowns(events'.batch) = {}]_vars

\* C13 as amended: every recognized scan code reports exactly one
\* modifier-down event, also when the modifier is already down; at the sink
\* the modifier is down from a recognized code until the next code 0, and no
\* other code changes it.
C13_ModifierReportedEachTime ==
    [][DecodeStep =>
         /\ irq.b2 \in Recognized =>
              (Cardinality(ModifierDowns(events'.batch)) = 1
               /\ ModifierDown(events'.keys))
         /\ irq.b2 = 0 => ~ModifierDown(events'.keys)
         /\ (irq.b2 # 0 /\ irq.b2 \notin Recognized) =>
              (ModifierDown(events'.keys) <=> ModifierDown(events.keys))]_vars

C13_Witness ==
    /\ Decoded /\ irq.b2 = SCAN_BASE + 1 /\ events.prev_code = SCAN_BASE
    /\ ModifierDowns(events.batch) = {1}
    /\ events.keys = {"KEY_RIGHTALT", "KEY_Q", "KEY_P"}

FourBenign == {"-EOVERFLOW", "-ECONNRESET", "-ENOENT", "-ESHUTDOWN"}

\* C14: the callback decodes exactly when the status is 0, and goes on to the
\* resubmission exactly when the status is not one of the four ignored ones:
\* an ignored status returns at once, with nothing decoded and nothing
\* submitted; any other failure skips the decoding and resubmits; a decoded
\* report is followed by the resubmission.
C14_StatusDispatch ==
    [][/\ (irq.pc = "entry" /\ irq'.pc # "entry") =>
            /\ irq'.pc = "decode" <=> irq.status = "0"
            /\ irq'.pc = "none" <=> irq.status \in FourBenign
            /\ irq'.pc = "exit" <=> irq.status \notin FourBenign \cup {"0"}
            /\ events' = events /\ usb' = usb
       /\ events' # events => (irq.pc = "decode" /\ irq.status = "0")
       /\ (irq.pc = "decode" /\ irq' # irq) => (irq'.pc = "exit" /\ usb' = usb)
       /\ (irq.pc = "exit" /\ irq' # irq) =>
            (irq'.pc = "none" /\ events' = events
             /\ usb'.outstanding \in {usb.outstanding, usb.outstanding + 1})]_vars

C14_Witness ==
    /\ irq.pc = "exit" /\ irq.status = "-EPROTO" /\ slock = "irq"
    /\ events.code = -1 /\ Outstanding = 0

OrdinaryKeys == {"KEY_Q", "KEY_P", "KEY_Y", "KEY_S"}

Syncs(batch) == {i \in 1..Len(batch) : batch[i].type = "sync"}

\* C20: for any sequence of reports, the key state at the sink has the
\* modifier down exactly when one of the four ordinary keys is down, and
\* every batch of key events of one callback invocation ends with its one
\* sync, which is reported before the transfer is resubmitted.
C20_ModifierIffKey ==
    /\ ModifierDown(events.keys) <=> (events.keys \cap OrdinaryKeys # {})
    /\ events.keys \subseteq OrdinaryKeys \cup {"KEY_RIGHTALT"}
    /\ events.batch # << >> => Syncs(events.batch) = {Len(events.batch)}
    /\ (Decoded /\ events.batch # << >>) => Outstanding = 0

C20_Witness ==
    /\ Decoded /\ irq.b2 = SCAN_BASE + 2
    /\ events.keys = {"KEY_RIGHTALT", "KEY_S", "KEY_Y"}
    /\ Syncs(events.batch) = {3}


\* a step that submits, cancels or frees the URB
UrbUse ==
    \/ pm.pc = "res_submit" /\ pm'.pc = "idle"
    \/ pm.pc = "susp_kill" /\ pm'.pc = "susp_wait"
    \/ inp.pc = "open_submit" /\ inp'.pc = "idle"
    \/ inp.pc = "idle" /\ inp'.pc = "close_kill"
    \/ irq.pc = "exit" /\ irq'.pc = "none"
    \/ usb'.frees > usb.frees

\* C17: the URB is freed at most once, and once it is freed no operation
\* submits it, cancels it or frees it again.
C17_UrbFreedOnceThenUnused ==
    [][usb.urb = "freed" => ~UrbUse]_vars

\* C18: once the framework has detached an attached session and no consumer
\* has it open, refcount is zero and the session storage is released.
C18_ReleasedAfterDetach ==
    (bus.pc = "gone" /\ sink.users = 0 /\ inp.pc = "idle") =>
        (dev.kref = 0 /\ dev.mem = "freed" /\ dev.kfrees = 1)

\* C19: after probe has failed and discarded the session, the interface data
\* of the framework does not designate the discarded session.
C19_NoStaleInterfaceData ==
    (bus.pc = "failed" /\ dev.mem = "freed") => intfdata = "null"

====
